---- MODULE Spec2Model ----
(***************************************************************************)
(* Model of the wellness-journal store (db/sqlite.ts): the daily_entries   *)
(* table with its morning and evening write paths, the point lookup, the   *)
(* recent-entries scan, the streak walk and the historical statistics;     *)
(* the habits and habit_logs tables with the seed, the habit log, the      *)
(* habit list and the habit statistics; and the free block of a calendar   *)
(* day (integrations/calendar.ts).                                         *)
(*                                                                         *)
(* Conventions.  A calendar date 'YYYY-MM-DD' is a day number; ISO date    *)
(* strings compare as their day numbers do.  The clock counts ticks of     *)
(* half a day, so datetime('now') is the tick and date('now') is the UTC   *)
(* day of the tick, while dayjs() is the local day: the tick shifted by    *)
(* the zone offset.  A JavaScript or SQL value that may be absent is       *)
(* NULL, UNDEFINED or Val(v).                                              *)
(***************************************************************************)
EXTENDS Integers, Sequences, FiniteSets, TLC

VARIABLES
  rows,      \* the rows of table daily_entries
  nextId,    \* the AUTOINCREMENT counter of daily_entries.id
  now,       \* the clock, in ticks (UTC)
  tzOffset,  \* local time minus UTC, in ticks
  lastOp,    \* the last call made on the store, and what it returned
  calls,     \* the number of calls made on the store so far
  db,        \* whether the module holds an open connection (db is not null)
  habits,    \* the rows of table habits
  habit_logs, \* the rows of table habit_logs
  events,    \* the timed events the calendar API returns for the day
  routine,   \* the last check-in routine run, and what it did about habits
  oauth      \* the OAuth flow: its server, its promise, its token exchanges

vars == <<rows, nextId, now, tzOffset, lastOp, calls, db, habits, habit_logs, events, routine, oauth>>

-----------------------------------------------------------------------------
(* Bounds *)

MaxDay == 1          \* dates 0..MaxDay are written in Spec
MaxNow == 2          \* the clock of Spec stops at this tick
MaxCalls == 3        \* calls made on the store in a behaviour of Spec
MaxDays == 2         \* largest window asked of getRecentEntries
MaxStreakDay == 63   \* dates 0..MaxStreakDay are used in SpecStreak
MaxStatRows == 3     \* entries of a store drawn in SpecStats
MaxStatBack == 15    \* the oldest entry of SpecStats is this many days back
MaxHabitCalls == 3   \* calls made on the store in a behaviour of SpecHabits
MaxLogRows == 3      \* habit logs of a store drawn in SpecHabitStats
MaxEvents == 2       \* events of a day drawn in SpecCalendar

(* Program constants *)

TicksPerDay == 2
STREAK_ROWS == 60    \* LIMIT 60 of the streak query
STREAK_ITERATIONS == 60  \* for (let i = 0; i < 60; i++)
TREND_DAYS == 7      \* date('now', '-7 days') of the trend query
RECENT_DAYS == 3     \* date('now', '-3 days') of the trend buckets
TREND_THRESHOLD == 5 \* diff > 5, diff < -5
WORK_START_HOUR == 9 \* workStart.setHours(9, 0, 0, 0)
WORK_END_HOUR == 18  \* workEnd.setHours(18, 0, 0, 0)

Dates == 0..MaxDay
TzOffsets == {-1, 0, 1}

-----------------------------------------------------------------------------
(* Values *)

NULL == <<"null">>
UNDEFINED == <<"undefined">>
Val(v) == <<"value", v>>
IsVal(x) == x[1] = "value"

\* x ?? null
OrNull(x) == IF IsVal(x) THEN x ELSE NULL

\* JavaScript truthiness of an object-or-null and of a string-or-null
TruthyObject(x) == IsVal(x)
TruthyString(x) == IsVal(x) /\ x[2] # ""

\* date('now') and dayjs().format('YYYY-MM-DD')
UtcToday == now \div TicksPerDay
LocalToday == (now + tzOffset) \div TicksPerDay

-----------------------------------------------------------------------------
(* JSON.stringify / JSON.parse.  A JSON text is <<"json", t>>; a property  *)
(* whose value is undefined is left out of the text, and reading a         *)
(* property that the parsed object lacks gives undefined.                  *)

StringifyEvent(e) ==
  IF e.location = UNDEFINED
    THEN [id |-> e.id, duration |-> e.duration, type |-> e.type]
    ELSE [id |-> e.id, duration |-> e.duration, type |-> e.type,
          location |-> e.location[2]]

ParseEvent(t) ==
  [id |-> t.id, duration |-> t.duration, type |-> t.type,
   location |-> IF "location" \in DOMAIN t THEN Val(t.location) ELSE UNDEFINED]

StringifyCalendarDay(c) ==
  <<"json", [events |-> [i \in 1..Len(c.events) |-> StringifyEvent(c.events[i])],
             summary |-> c.summary]>>

ParseCalendarDay(t) ==
  [events |-> [i \in 1..Len(t[2].events) |-> ParseEvent(t[2].events[i])],
   summary |-> t[2].summary]

\* WhoopDailyData and string[] hold numbers, strings, null and arrays only
JSONstringify(v) == <<"json", v>>
JSONparse(t) == t[2]

-----------------------------------------------------------------------------
(* Inputs: the entries handed to the store.  Only the properties the store *)
(* reads are kept in a WhoopDailyData and a CalendarDay.                   *)

WhoopSample ==
  [recovery |-> Val([score |-> 80, hrvRmssd |-> 60, restingHeartRate |-> 50]),
   sleep |-> Val([qualityDuration |-> 420, efficiency |-> 90]),
   strain |-> NULL]

CalendarSample ==
  [events |-> << [id |-> "e1", duration |-> 60, type |-> "meeting",
                  location |-> UNDEFINED],
                 [id |-> "e2", duration |-> 30, type |-> "focus",
                  location |-> Val("desk")] >>,
   summary |-> [totalEvents |-> 2, meetingMinutes |-> 60, focusBlocks |-> 1,
                longestFreeBlock |-> 210]]

MorningKinds == 1..3

\* a MorningEntry for date d made at tick ts; kind 3 has an energy rating
\* outside 1..10
MorningSampleAt(d, k, ts) ==
  [date |-> d,
   timestamp |-> ts,
   whoopData |-> IF k = 1 THEN Val(WhoopSample) ELSE NULL,
   calendarData |-> IF k = 1 THEN Val(CalendarSample) ELSE NULL,
   energyRating |-> CASE k = 1 -> Val(7) [] k = 2 -> Val(10) [] OTHER -> Val(11),
   mood |-> IF k = 1 THEN Val("energized") ELSE Val("low_flat"),
   sleepReflection |-> IF k = 1 THEN Val("slept well") ELSE Val(""),
   yesterdayWin |-> IF k = 1 THEN Val("shipped") ELSE Val("a walk"),
   yesterdayChallenge |-> IF k = 1 THEN Val("meetings") ELSE Val(""),
   oneThing |-> IF k = 1 THEN Val("write") ELSE Val("rest"),
   movementIntention |-> IF k = 1 THEN Val("full_intensity") ELSE Val("rest"),
   successMetric |-> IF k = 1 THEN Val("draft done") ELSE Val("in bed by ten"),
   patterns |-> IF k = 1 THEN UNDEFINED ELSE Val("low hrv"),
   dynamicQuestions |-> IF k = 1 THEN Val(<<"Q: why\nA: because">>) ELSE UNDEFINED]

\* timestamp: new Date().toISOString()
MorningSample(d, k) == MorningSampleAt(d, k, now)

EveningKinds == 1..2

\* an EveningEntry for date d
EveningSample(d, k) ==
  [date |-> d,
   timestamp |-> now,
   priorityCompleted |-> IF k = 1 THEN Val("yes") ELSE Val("no"),
   eveningReflection |-> IF k = 1 THEN Val("good day") ELSE Val(""),
   gratitude |-> IF k = 1 THEN <<"family", "coffee">> ELSE << >>,
   tomorrowRemember |-> IF k = 1 THEN Val("call mum") ELSE Val("sleep")]

-----------------------------------------------------------------------------
(* Table daily_entries *)

\* CHECK(energy_rating BETWEEN 1 AND 10); a NULL passes a CHECK
CheckEnergyRating(v) == ~IsVal(v) \/ (v[2] >= 1 /\ v[2] <= 10)

\* CHECK(priority_completed IN ('yes', 'partial', 'no', NULL)): the IN is
\* true for the three words and NULL (unknown) for anything else, and a
\* CHECK fails only on false
CheckPriorityCompleted(v) ==
  LET member == IF IsVal(v) /\ v[2] \in {"yes", "partial", "no"}
                  THEN Val(TRUE) ELSE NULL
  IN  member # Val(FALSE)

\* the table without the UNIQUE constraint on date: nothing ever conflicts
Conflicting_NoUnique(d) == {}

\* date TEXT UNIQUE NOT NULL: the rows that conflict with a new row for date d
Conflicting(d) == {r \in rows : r.date = d}

\* entry.whoopData?.<part>?.<field> ?? null
WhoopField(entry, part, field) ==
  IF ~IsVal(entry.whoopData) THEN NULL
  ELSE IF ~IsVal(entry.whoopData[2][part]) THEN NULL
  ELSE OrNull(Val(entry.whoopData[2][part][2][field]))

\* the named parameters bound by saveMorningEntry: the morning columns
MorningParams(entry) ==
  [whoop_data |-> IF TruthyObject(entry.whoopData)
                    THEN Val(JSONstringify(entry.whoopData[2])) ELSE NULL,
   calendar_data |-> IF TruthyObject(entry.calendarData)
                       THEN Val(StringifyCalendarDay(entry.calendarData[2])) ELSE NULL,
   recovery_score |-> WhoopField(entry, "recovery", "score"),
   hrv |-> WhoopField(entry, "recovery", "hrvRmssd"),
   resting_hr |-> WhoopField(entry, "recovery", "restingHeartRate"),
   sleep_quality_minutes |-> WhoopField(entry, "sleep", "qualityDuration"),
   sleep_efficiency |-> WhoopField(entry, "sleep", "efficiency"),
   strain_score |-> WhoopField(entry, "strain", "score"),
   energy_rating |-> entry.energyRating,
   mood |-> entry.mood,
   sleep_reflection |-> entry.sleepReflection,
   yesterday_win |-> entry.yesterdayWin,
   yesterday_challenge |-> entry.yesterdayChallenge,
   one_thing |-> entry.oneThing,
   movement_intention |-> entry.movementIntention,
   success_metric |-> entry.successMetric,
   patterns |-> OrNull(entry.patterns),
   dynamic_questions |-> IF TruthyObject(entry.dynamicQuestions)
                           THEN Val(JSONstringify(entry.dynamicQuestions[2])) ELSE NULL]

MorningColumns ==
  {"whoop_data", "calendar_data", "recovery_score", "hrv", "resting_hr",
   "sleep_quality_minutes", "sleep_efficiency", "strain_score", "energy_rating",
   "mood", "sleep_reflection", "yesterday_win", "yesterday_challenge",
   "one_thing", "movement_intention", "success_metric", "patterns",
   "dynamic_questions"}

\* the named parameters bound by saveEveningEntry: the evening columns
EveningParams(entry) ==
  [priority_completed |-> entry.priorityCompleted,
   evening_reflection |-> entry.eveningReflection,
   gratitude |-> Val(JSONstringify(entry.gratitude)),
   tomorrow_remember |-> entry.tomorrowRemember]

EveningColumns ==
  {"priority_completed", "evening_reflection", "gratitude", "tomorrow_remember"}

\* INSERT INTO daily_entries (date, <morning columns>): the other columns
\* take their defaults
InsertedRow(id, d, p, ts) ==
  [c \in {"id", "date", "created_at", "updated_at"} \cup MorningColumns \cup EveningColumns |->
     CASE c = "id" -> id
       [] c = "date" -> d
       [] c \in {"created_at", "updated_at"} -> ts
       [] c \in MorningColumns -> p[c]
       [] OTHER -> NULL]

\* the conflict branch forgetting the two snapshot columns
MorningUpdatedRow_StaleSnapshots(r, p, ts) ==
  [c \in DOMAIN r |-> IF c \in MorningColumns \ {"whoop_data", "calendar_data"} THEN p[c]
                      ELSE IF c = "updated_at" THEN ts
                      ELSE r[c]]

\* the conflict branch stamping created_at instead of updated_at
MorningUpdatedRow_Recreated(r, p, ts) ==
  [c \in DOMAIN r |-> IF c \in MorningColumns THEN p[c]
                      ELSE IF c = "created_at" THEN ts
                      ELSE r[c]]

\* ON CONFLICT(date) DO UPDATE SET <morning columns>, updated_at = datetime('now')
MorningUpdatedRow(r, p, ts) ==
  [c \in DOMAIN r |-> IF c \in MorningColumns THEN p[c]
                      ELSE IF c = "updated_at" THEN ts
                      ELSE r[c]]

\* the evening write as a REPLACE: the row is rebuilt from the evening
\* columns alone
EveningUpdatedRow_Replace(r, p, ts) ==
  [c \in DOMAIN r |-> IF c \in EveningColumns THEN p[c]
                      ELSE IF c \in {"created_at", "updated_at"} THEN ts
                      ELSE IF c \in MorningColumns THEN NULL
                      ELSE r[c]]

\* UPDATE daily_entries SET <evening columns>, updated_at = datetime('now')
EveningUpdatedRow(r, p, ts) ==
  [c \in DOMAIN r |-> IF c \in EveningColumns THEN p[c]
                      ELSE IF c = "updated_at" THEN ts
                      ELSE r[c]]

-----------------------------------------------------------------------------
(* Reads *)

\* the row of S with the least id: the row a .get() returns
FirstRow(S) == CHOOSE r \in S : \A q \in S : r.id <= q.id

rowToDailyEntry(row) ==
  [date |-> row.date,
   timestamp |-> row.created_at,
   whoopData |-> IF TruthyObject(row.whoop_data)
                   THEN Val(JSONparse(row.whoop_data[2])) ELSE NULL,
   calendarData |-> IF TruthyObject(row.calendar_data)
                      THEN Val(ParseCalendarDay(row.calendar_data[2])) ELSE NULL,
   energyRating |-> row.energy_rating,
   mood |-> row.mood,
   sleepReflection |-> row.sleep_reflection,
   yesterdayWin |-> row.yesterday_win,
   yesterdayChallenge |-> row.yesterday_challenge,
   oneThing |-> row.one_thing,
   movementIntention |-> row.movement_intention,
   successMetric |-> row.success_metric,
   patterns |-> row.patterns,
   dynamicQuestions |-> IF TruthyObject(row.dynamic_questions)
                          THEN Val(JSONparse(row.dynamic_questions[2])) ELSE UNDEFINED,
   evening |-> IF TruthyString(row.priority_completed)
                 THEN Val([date |-> row.date,
                           timestamp |-> row.updated_at,
                           priorityCompleted |-> row.priority_completed,
                           eveningReflection |-> row.evening_reflection,
                           gratitude |-> IF TruthyObject(row.gratitude)
                                           THEN JSONparse(row.gratitude[2]) ELSE << >>,
                           tomorrowRemember |-> row.tomorrow_remember])
                 ELSE UNDEFINED]

\* getDailyEntry over a table T: null when no row has the date
DailyEntryIn(T, date) ==
  LET found == {r \in T : r.date = date}
  IN  IF found = {} THEN NULL ELSE Val(rowToDailyEntry(FirstRow(found)))

getDailyEntry(date) == DailyEntryIn(rows, date)

\* ORDER BY date DESC
RECURSIVE OrderByDateDesc(_)
OrderByDateDesc(S) ==
  IF S = {} THEN << >>
  ELSE LET top == CHOOSE r \in S :
                    \A q \in S : q.date < r.date \/ (q.date = r.date /\ r.id <= q.id)
       IN  <<top>> \o OrderByDateDesc(S \ {top})

\* WHERE date >= date('now', '-' || days || ' days') ORDER BY date DESC
getRecentEntries(days) ==
  LET selected == OrderByDateDesc({r \in rows : r.date >= UtcToday - days})
  IN  [i \in 1..Len(selected) |-> rowToDailyEntry(selected[i])]

\* SELECT DISTINCT date ... WHERE date <= date('now') ORDER BY date DESC LIMIT n
StreakDates(n) ==
  LET upToToday == {r.date : r \in {q \in rows : q.date <= UtcToday}}
  IN  {d \in upToToday : Cardinality({e \in upToToday : e > d}) < n}

\* the walk without its iteration cap: it runs until the first gap
RECURSIVE StreakWalk_Uncapped(_, _, _, _)
StreakWalk_Uncapped(dates, i, checkDate, streak) ==
  IF checkDate \in dates THEN StreakWalk_Uncapped(dates, i + 1, checkDate - 1, streak + 1)
  ELSE IF i = 0 THEN StreakWalk_Uncapped(dates, i + 1, checkDate - 1, streak)
  ELSE [streak |-> streak, steps |-> i + 1]

\* the loop of getCurrentStreak from iteration i on; steps counts the
\* iterations entered
RECURSIVE StreakWalk(_, _, _, _)
StreakWalk(dates, i, checkDate, streak) ==
  IF ~(i < STREAK_ITERATIONS) THEN [streak |-> streak, steps |-> i]
  ELSE IF checkDate \in dates THEN StreakWalk(dates, i + 1, checkDate - 1, streak + 1)
  ELSE IF i = 0 THEN StreakWalk(dates, i + 1, checkDate - 1, streak)
  ELSE [streak |-> streak, steps |-> i + 1]

getCurrentStreak == StreakWalk(StreakDates(STREAK_ROWS), 0, LocalToday, 0)

-----------------------------------------------------------------------------
(* Statistics.  A JavaScript number is the exact fraction n/d with d > 0,  *)
(* or an infinity, or NaN: the arithmetic is taken without rounding.       *)

Num(n, d) == <<"num", n, d>>
Infinity(s) == <<"inf", s>>
NaN == <<"nan">>

\* a - b of two finite numbers
Minus(a, b) == Num(a[2] * b[3] - b[2] * a[3], a[3] * b[3])

\* a / b of two finite numbers: x / 0 is an infinity of the sign of x, and
\* 0 / 0 is NaN
Divide(a, b) ==
  IF b[2] = 0
    THEN IF a[2] = 0 THEN NaN ELSE Infinity(IF a[2] > 0 THEN 1 ELSE -1)
    ELSE IF b[2] > 0 THEN Num(a[2] * b[3], a[3] * b[2])
                     ELSE Num((0 - a[2]) * b[3], a[3] * (0 - b[2]))

\* x * k for an integer k > 0
Times(x, k) == IF x[1] = "num" THEN Num(x[2] * k, x[3]) ELSE x

\* x > k and x < k for an integer k: every comparison with NaN is false
Greater(x, k) ==
  CASE x[1] = "num" -> x[2] > k * x[3]
    [] x[1] = "inf" -> x[2] > 0
    [] OTHER -> FALSE

Less(x, k) ==
  CASE x[1] = "num" -> x[2] < k * x[3]
    [] x[1] = "inf" -> x[2] < 0
    [] OTHER -> FALSE

RECURSIVE SumCol(_, _)
SumCol(S, c) ==
  IF S = {} THEN 0
  ELSE LET r == CHOOSE q \in S : TRUE
       IN  r[c][2] + SumCol(S \ {r}, c)

\* AVG(c) over the rows S: the NULLs are skipped, and the average of no
\* value is NULL
Avg(S, c) ==
  LET valued == {r \in S : IsVal(r[c])}
  IN  IF valued = {} THEN NULL
      ELSE Val(Num(SumCol(valued, c), Cardinality(valued)))

\* the averages fallback read as x ?? null: an empty average stays null
OrZero_Absent(x) == IF IsVal(x) THEN x[2] ELSE NULL

\* x ?? 0
OrZero(x) == IF IsVal(x) THEN x[2] ELSE Num(0, 1)

\* the averaging query without its recovery filter
StatsRows_AllEntries(days) == {r \in rows : r.date >= UtcToday - days}

\* WHERE date >= date('now', '-' || days || ' days') AND recovery_score IS NOT NULL
StatsRows(days) ==
  {r \in rows : r.date >= UtcToday - days /\ IsVal(r.recovery_score)}

\* the trend query taking the window of the averages
TrendRows_Windowed(days) == {r \in rows : r.date >= UtcToday - days}

\* WHERE date >= date('now', '-7 days'): the window of the call is not used
TrendRows(days) == {r \in rows : r.date >= UtcToday - TREND_DAYS}

\* CASE WHEN date >= date('now', '-3 days') and CASE WHEN date < date('now', '-3 days')
RecentBucket(S) == {r \in S : r.date >= UtcToday - RECENT_DAYS}
OlderBucket(S) == {r \in S : r.date < UtcToday - RECENT_DAYS}

\* the thresholds taken inclusively
calculateTrend_Inclusive(recent, older) ==
  IF recent = NULL \/ older = NULL THEN "stable"
  ELSE LET diff == Times(Divide(Minus(recent[2], older[2]), older[2]), 100)
       IN  IF ~Less(diff, TREND_THRESHOLD) THEN "up"
           ELSE IF ~Greater(diff, 0 - TREND_THRESHOLD) THEN "down"
           ELSE "stable"

calculateTrend(recent, older) ==
  IF recent = NULL \/ older = NULL THEN "stable"
  ELSE LET diff == Times(Divide(Minus(recent[2], older[2]), older[2]), 100)
       IN  IF Greater(diff, TREND_THRESHOLD) THEN "up"
           ELSE IF Less(diff, 0 - TREND_THRESHOLD) THEN "down"
           ELSE "stable"

getHistoricalStats(days) ==
  LET selected == StatsRows(days)
      trend == TrendRows(days)
  IN  [avgRecovery |-> OrZero(Avg(selected, "recovery_score")),
       avgHrv |-> OrZero(Avg(selected, "hrv")),
       avgSleep |-> OrZero(Avg(selected, "sleep_quality_minutes")),
       avgEnergy |-> OrZero(Avg(selected, "energy_rating")),
       daysTracked |-> Cardinality(selected),
       recoveryTrend |-> calculateTrend(Avg(RecentBucket(trend), "recovery_score"),
                                        Avg(OlderBucket(trend), "recovery_score")),
       hrvTrend |-> calculateTrend(Avg(RecentBucket(trend), "hrv"),
                                   Avg(OlderBucket(trend), "hrv")),
       sleepTrend |-> calculateTrend(Avg(RecentBucket(trend), "sleep_quality_minutes"),
                                     Avg(OlderBucket(trend), "sleep_quality_minutes"))]

-----------------------------------------------------------------------------
(* Writes *)

NoOp == [op |-> "none", date |-> 0, arg |-> NULL, threw |-> FALSE, changes |-> 0,
         result |-> NULL]

\* no routine has run
NoRoutine == [op |-> "none", date |-> 0, prompted |-> FALSE, logged |-> FALSE]

\* performOAuthFlow has not been called
NoFlow == [state |-> "", server |-> "none", promise |-> "none", exchanges |-> << >>,
           timer |-> FALSE, tokensFrom |-> NULL]

\* no routine is running and no authorisation is under way
Idle == routine = NoRoutine /\ oauth = NoFlow

saveMorningEntry(entry) ==
  LET p == MorningParams(entry)
  IN  IF ~CheckEnergyRating(p.energy_rating)
        THEN \* SqliteError: CHECK constraint failed
             /\ UNCHANGED <<rows, nextId>>
             /\ lastOp' = [NoOp EXCEPT !.op = "saveMorningEntry", !.date = entry.date,
                                       !.arg = Val(entry), !.threw = TRUE]
        ELSE /\ IF Conflicting(entry.date) = {}
                  THEN /\ rows' = rows \cup {InsertedRow(nextId, entry.date, p, now)}
                       /\ nextId' = nextId + 1
                  ELSE /\ rows' = {IF r \in Conflicting(entry.date)
                                     THEN MorningUpdatedRow(r, p, now) ELSE r : r \in rows}
                       /\ UNCHANGED nextId
             /\ lastOp' = [NoOp EXCEPT !.op = "saveMorningEntry", !.date = entry.date,
                                       !.arg = Val(entry), !.changes = 1]

\* the evening write as an upsert: it inserts a row when none has the date
saveEveningEntry_Upsert(entry) ==
  LET p == EveningParams(entry)
      matched == {r \in rows : r.date = entry.date}
      blank == InsertedRow(nextId, entry.date, [c \in MorningColumns |-> NULL], now)
  IN  /\ rows' = IF matched = {}
                   THEN rows \cup {EveningUpdatedRow(blank, p, now)}
                   ELSE {IF r \in matched THEN EveningUpdatedRow(r, p, now) ELSE r
                           : r \in rows}
      /\ nextId' = IF matched = {} THEN nextId + 1 ELSE nextId
      /\ lastOp' = [NoOp EXCEPT !.op = "saveEveningEntry", !.date = entry.date,
                                !.arg = Val(entry),
                                !.changes = Cardinality(matched)]

saveEveningEntry(entry) ==
  LET p == EveningParams(entry)
      matched == {r \in rows : r.date = entry.date}
  IN  IF matched # {} /\ ~CheckPriorityCompleted(p.priority_completed)
        THEN /\ UNCHANGED <<rows, nextId>>
             /\ lastOp' = [NoOp EXCEPT !.op = "saveEveningEntry", !.date = entry.date,
                                       !.arg = Val(entry), !.threw = TRUE]
        ELSE /\ rows' = {IF r \in matched THEN EveningUpdatedRow(r, p, now) ELSE r
                           : r \in rows}
             /\ UNCHANGED nextId
             /\ lastOp' = [NoOp EXCEPT !.op = "saveEveningEntry", !.date = entry.date,
                                       !.arg = Val(entry),
                                       !.changes = Cardinality(matched)]

-----------------------------------------------------------------------------
(* Tables habits and habit_logs.  The emoji of a habit is carried along    *)
(* unread and is left out.                                                  *)

\* INSERT OR IGNORE INTO habits (name, emoji, category) VALUES ...
DefaultHabits ==
  << [name |-> "Meditation", category |-> "morning"],
     [name |-> "Exercise", category |-> "anytime"],
     [name |-> "No alcohol", category |-> "evening"],
     [name |-> "Read", category |-> "evening"],
     [name |-> "Journaled", category |-> "evening"],
     [name |-> "8+ hours sleep goal", category |-> "evening"],
     [name |-> "No caffeine after 2pm", category |-> "evening"],
     [name |-> "Gratitude practice", category |-> "morning"] >>

\* the texts of the two ORDER BY columns in BINARY collation order
TextsInOrder ==
  <<"8+ hours sleep goal", "Exercise", "Gratitude practice", "Journaled",
    "Meditation", "No alcohol", "No caffeine after 2pm", "Read",
    "anytime", "evening", "morning">>

Collation(t) == CHOOSE i \in 1..Len(TextsInOrder) : TextsInOrder[i] = t

\* INTEGER PRIMARY KEY AUTOINCREMENT of a table no row is deleted from
NextRowId(T) ==
  IF T = {} THEN 1 ELSE 1 + (CHOOSE i \in {r.id : r \in T} : \A r \in T : r.id <= i)

\* the seed as INSERT OR REPLACE: a row with the name is deleted and a new
\* one inserted, with the defaults of the other columns
RECURSIVE SeedHabits_Replace(_, _)
SeedHabits_Replace(T, i) ==
  IF i > Len(DefaultHabits) THEN T
  ELSE LET kept == {r \in T : r.name # DefaultHabits[i].name}
       IN  SeedHabits_Replace(kept \cup {[id |-> NextRowId(T),
                                          name |-> DefaultHabits[i].name,
                                          category |-> DefaultHabits[i].category,
                                          active |-> 1]}, i + 1)

\* the seed from its i-th value on: name TEXT UNIQUE makes INSERT OR IGNORE
\* skip a value whose name the table has
RECURSIVE SeedHabits(_, _)
SeedHabits(T, i) ==
  IF i > Len(DefaultHabits) THEN T
  ELSE IF \E r \in T : r.name = DefaultHabits[i].name THEN SeedHabits(T, i + 1)
  ELSE SeedHabits(T \cup {[id |-> NextRowId(T),
                           name |-> DefaultHabits[i].name,
                           category |-> DefaultHabits[i].category,
                           active |-> 1]}, i + 1)

\* table habits once initDatabase() has returned: an open connection is
\* returned as it is, otherwise the schema script runs
Opened(T) == IF db THEN T ELSE SeedHabits(T, 1)

\* WHERE ... , the test on active left out
HabitsMatching_IgnoreActive(T, category) ==
  {r \in T : TruthyString(category) => r.category \in {category[2], "anytime"}}

\* WHERE active = 1 [AND (category = ? OR category = 'anytime')]
HabitsMatching(T, category) ==
  {r \in T : /\ r.active = 1
             /\ TruthyString(category) => r.category \in {category[2], "anytime"}}

\* ORDER BY category, name
RECURSIVE OrderByCategoryName(_)
OrderByCategoryName(S) ==
  IF S = {} THEN << >>
  ELSE LET first == CHOOSE r \in S : \A q \in S :
                      \/ Collation(r.category) < Collation(q.category)
                      \/ /\ r.category = q.category
                         /\ \/ Collation(r.name) < Collation(q.name)
                            \/ (r.name = q.name /\ r.id <= q.id)
       IN  <<first>> \o OrderByCategoryName(S \ {first})

getActiveHabits(category) ==
  LET selected == OrderByCategoryName(HabitsMatching(Opened(habits), category))
  IN  [i \in 1..Len(selected) |->
         [id |-> selected[i].id, name |-> selected[i].name,
          category |-> selected[i].category, active |-> selected[i].active = 1]]

\* habit_logs without UNIQUE(date, habit_id): nothing ever conflicts
LogConflicts_NoUnique(date, habitId) == {}

\* UNIQUE(date, habit_id): the rows that conflict with a new row of the pair
LogConflicts(date, habitId) ==
  {r \in habit_logs : r.date = date /\ r.habit_id = habitId}

logHabit(date, habitId, completed, notes) ==
  LET p == [completed |-> IF completed THEN 1 ELSE 0,
            notes |-> IF TruthyString(notes) THEN notes ELSE NULL]
  IN  /\ db' = TRUE
      /\ habits' = Opened(habits)
      /\ habit_logs' =
           IF LogConflicts(date, habitId) = {}
             THEN habit_logs \cup {[id |-> NextRowId(habit_logs), date |-> date,
                                    habit_id |-> habitId, completed |-> p.completed,
                                    notes |-> p.notes]}
             ELSE {IF r \in LogConflicts(date, habitId)
                     THEN [r EXCEPT !.completed = p.completed, !.notes = p.notes]
                     ELSE r : r \in habit_logs}
      /\ lastOp' = [NoOp EXCEPT !.op = "logHabit", !.date = date,
                                !.arg = Val([habitId |-> habitId, completed |-> completed,
                                             notes |-> notes]),
                                !.changes = 1]

\* total > 0 ? (completed / days) * 100 : 0
CompletionRate(completed, total, days) ==
  IF total > 0 THEN Times(Divide(Num(completed, 1), Num(days, 1)), 100) ELSE Num(0, 1)

\* LEFT JOIN habit_logs hl ON h.id = hl.habit_id AND hl.date >= date('now', '-' || days || ' days')
JoinedLogs(h, days) ==
  {l \in habit_logs : l.habit_id = h.id /\ l.date >= UtcToday - days}

getHabitStats(days) ==
  LET selected == OrderByCategoryName(HabitsMatching(Opened(habits), UNDEFINED))
  IN  [i \in 1..Len(selected) |->
         LET joined == JoinedLogs(selected[i], days)
             completed == Cardinality({l \in joined : l.completed = 1})
             total == Cardinality({l.date : l \in joined})
         IN  [habitName |-> selected[i].name,
              completionRate |-> CompletionRate(completed, total, days),
              streak |-> 0]]

-----------------------------------------------------------------------------
(* The calendar day.  An instant is a number of minutes from the local     *)
(* midnight that new Date(date) with setHours(0, 0, 0, 0) gives, the day   *)
(* whose events are fetched and on which the working window lies; the      *)
(* instants in use are whole minutes, which Math.round leaves as they are. *)

MinutesPerHour == 60

Max(a, b) == IF a >= b THEN a ELSE b

\* setHours(9, 0, 0, 0) and setHours(18, 0, 0, 0)
WorkStart == WORK_START_HOUR * MinutesPerHour
WorkEnd == WORK_END_HOUR * MinutesPerHour

\* Array.prototype.sort((a, b) => a.start - b.start): stable
RECURSIVE SortByStart(_)
SortByStart(seq) ==
  IF Len(seq) <= 1 THEN seq
  ELSE LET front == SortByStart(SubSeq(seq, 1, Len(seq) - 1))
           last == seq[Len(seq)]
           before == Cardinality({i \in 1..Len(front) : front[i].start <= last.start})
       IN  SubSeq(front, 1, before) \o <<last>> \o SubSeq(front, before + 1, Len(front))

\* the sweep with the cursor set to each event's end, never kept where it was
RECURSIVE FreeSweep_CursorToEnd(_, _, _, _)
FreeSweep_CursorToEnd(busy, i, longestFree, currentFreeStart) ==
  IF i > Len(busy)
    THEN IF currentFreeStart < WorkEnd
           THEN Max(longestFree, WorkEnd - currentFreeStart)
           ELSE longestFree
    ELSE FreeSweep_CursorToEnd(busy, i + 1,
                   IF busy[i].start > currentFreeStart
                     THEN Max(longestFree, busy[i].start - currentFreeStart)
                     ELSE longestFree,
                   busy[i].end)

\* the loop over the busy periods from the i-th on, and the final block
RECURSIVE FreeSweep(_, _, _, _)
FreeSweep(busy, i, longestFree, currentFreeStart) ==
  IF i > Len(busy)
    THEN IF currentFreeStart < WorkEnd
           THEN Max(longestFree, WorkEnd - currentFreeStart)
           ELSE longestFree
    ELSE FreeSweep(busy, i + 1,
                   IF busy[i].start > currentFreeStart
                     THEN Max(longestFree, busy[i].start - currentFreeStart)
                     ELSE longestFree,
                   Max(currentFreeStart, busy[i].end))

calculateLongestFreeBlock(evts) ==
  IF Len(evts) = 0 THEN WorkEnd - WorkStart
  ELSE FreeSweep(SortByStart(evts), 1, 0, WorkStart)

\* the CalendarDay of getCalendarEvents when the fetch succeeded (ok) and
\* when it threw
getCalendarEvents(items, ok) ==
  IF ok
    THEN LET sorted == SortByStart(items)
         IN  [events |-> sorted,
              summary |-> [totalEvents |-> Len(sorted),
                           longestFreeBlock |-> calculateLongestFreeBlock(sorted)]]
    ELSE [events |-> << >>,
          summary |-> [totalEvents |-> 0, longestFreeBlock |-> 0]]

-----------------------------------------------------------------------------
(* The store under morning and evening writes as the clock advances *)

\* the connection is open and the schema script has run on a new file
StoreOpen ==
  /\ db = TRUE /\ habits = SeedHabits({}, 1) /\ habit_logs = {} /\ events = << >>
  /\ Idle

Init ==
  /\ rows = {}
  /\ nextId = 1
  /\ now = 0
  /\ tzOffset \in TzOffsets
  /\ lastOp = NoOp
  /\ calls = 0
  /\ StoreOpen

Tick ==
  /\ now < MaxNow
  /\ now' = now + 1
  /\ UNCHANGED <<rows, nextId, tzOffset, lastOp, calls, db, habits, habit_logs, events, routine, oauth>>

SaveMorning ==
  /\ calls < MaxCalls
  /\ calls' = calls + 1
  /\ \E d \in Dates, k \in MorningKinds : saveMorningEntry(MorningSample(d, k))
  /\ UNCHANGED <<now, tzOffset, db, habits, habit_logs, events, routine, oauth>>

SaveEvening ==
  /\ calls < MaxCalls
  /\ calls' = calls + 1
  /\ \E d \in Dates, k \in EveningKinds : saveEveningEntry(EveningSample(d, k))
  /\ UNCHANGED <<now, tzOffset, db, habits, habit_logs, events, routine, oauth>>

Next == Tick \/ SaveMorning \/ SaveEvening

Spec == Init /\ [][Next]_vars

-----------------------------------------------------------------------------
(* The streak walk over stores journalled once a day: an entry on every    *)
(* date of lo..hi but (possibly) one, each written on its own day.         *)

StreakToday == MaxStreakDay - 1

JournalledRow(d, lo) ==
  LET first == InsertedRow(1, lo, MorningParams(MorningSampleAt(lo, 2, lo * TicksPerDay)),
                           lo * TicksPerDay)
  IN  [first EXCEPT !.id = d - lo + 1, !.date = d,
                    !.created_at = d * TicksPerDay, !.updated_at = d * TicksPerDay]

JournalledStore(lo, hi, gap) == {JournalledRow(d, lo) : d \in (lo..hi) \ {gap}}

InitStreak ==
  /\ \E hi \in (StreakToday - 2)..(StreakToday + 1) :
       \E lo \in 0..hi : \E gap \in (lo - 1)..hi :
         /\ rows = JournalledStore(lo, hi, gap)
         /\ nextId = hi - lo + 2
  /\ now \in {StreakToday * TicksPerDay, StreakToday * TicksPerDay + 1}
  /\ tzOffset \in TzOffsets
  /\ lastOp = NoOp
  /\ calls = 0
  /\ StoreOpen

CallGetCurrentStreak ==
  /\ lastOp' = [NoOp EXCEPT !.op = "getCurrentStreak", !.date = LocalToday,
                            !.result = Val(getCurrentStreak)]
  /\ UNCHANGED <<rows, nextId, now, tzOffset, calls, db, habits, habit_logs, events, routine, oauth>>

NextStreak == CallGetCurrentStreak

SpecStreak == InitStreak /\ [][NextStreak]_vars

-----------------------------------------------------------------------------
(* The statistics over stores of a few entries placed around the edges of  *)
(* the windows, and over the store of the documented example.              *)

StatToday == MaxStatBack

\* the windows asked by runWeekly
StatWindows == {7, 14}

\* days from today (negative: back) on which SpecStats places entries
StatOffsets == {1, 0, 0 - 3, 0 - 4, 0 - 7, 0 - 8, 0 - 14, 0 - MaxStatBack}

WhoopWith(score, hrv, sleep) ==
  [recovery |-> IF IsVal(score)
                  THEN Val([score |-> score[2], hrvRmssd |-> hrv,
                            restingHeartRate |-> 50])
                  ELSE NULL,
   sleep |-> IF IsVal(sleep)
               THEN Val([qualityDuration |-> sleep[2], efficiency |-> 90])
               ELSE NULL,
   strain |-> NULL]

StatKinds == 1..5

\* kinds 1 to 3 are 5% apart in every metric; kind 2 has no sleep record,
\* kind 4 no recovery record and kind 5 a recovery score of 0
StatWhoop(k) ==
  CASE k = 1 -> WhoopWith(Val(20), 40, Val(400))
    [] k = 2 -> WhoopWith(Val(21), 42, NULL)
    [] k = 3 -> WhoopWith(Val(19), 38, Val(420))
    [] k = 4 -> WhoopWith(NULL, 0, Val(380))
    [] OTHER -> WhoopWith(Val(0), 40, Val(380))

\* the row of the entry of date d, written on its day or, for a date
\* ahead of the clock, at the clock
StatRow(id, d, whoop, energy) ==
  LET ts == IF d > StatToday THEN StatToday * TicksPerDay ELSE d * TicksPerDay
      entry == [MorningSampleAt(d, 2, ts) EXCEPT !.whoopData = Val(whoop),
                                                 !.energyRating = Val(energy)]
  IN  InsertedRow(id, d, MorningParams(entry), ts)

\* entries on the dates D, of the kinds k[d]
StatStore(D, k) ==
  {StatRow(1 + Cardinality({e \in D : e < d}), StatToday + d, StatWhoop(k[d]), 2 * k[d])
     : d \in D}

\* recovery scores 80, 82, 81 one to three days back and 60, 61, 59 four
\* to six days back
ExampleScores == <<80, 82, 81, 60, 61, 59>>

ExampleStore ==
  {StatRow(7 - i, StatToday - i, WhoopWith(Val(ExampleScores[i]), 60, Val(420)), 7)
     : i \in 1..Len(ExampleScores)}

InitStats ==
  /\ \/ \E D \in SUBSET StatOffsets :
          /\ Cardinality(D) <= MaxStatRows
          /\ \E k \in [D -> StatKinds] :
                /\ rows = StatStore(D, k)
                /\ nextId = Cardinality(D) + 1
     \/ /\ rows = ExampleStore
        /\ nextId = Len(ExampleScores) + 1
  /\ now = StatToday * TicksPerDay
  /\ tzOffset = 0
  /\ lastOp = NoOp
  /\ calls = 0
  /\ StoreOpen

CallGetHistoricalStats ==
  /\ \E days \in StatWindows :
       lastOp' = [NoOp EXCEPT !.op = "getHistoricalStats", !.arg = Val(days),
                              !.result = Val(getHistoricalStats(days))]
  /\ UNCHANGED <<rows, nextId, now, tzOffset, calls, db, habits, habit_logs, events, routine, oauth>>

NextStats == CallGetHistoricalStats

SpecStats == InitStats /\ [][NextStats]_vars

-----------------------------------------------------------------------------
(* The habit store from a new database file on: the connection is opened   *)
(* and closed, habits are logged and listed, and a habit is disabled by an *)
(* edit of the habits table (the program has no operation for it).         *)

\* the dates and the habits (Meditation, Exercise) that are logged
HabitDates == {0, 1}
HabitIds == {1, 2}

HabitNotes == {UNDEFINED, Val(""), Val("done")}

HabitCategories == {UNDEFINED, Val("morning"), Val("evening"), Val("anytime")}

InitHabits ==
  /\ rows = {}
  /\ nextId = 1
  /\ now = 0
  /\ tzOffset = 0
  /\ lastOp = NoOp
  /\ calls = 0
  /\ Idle
  /\ db = FALSE
  /\ habits = {}
  /\ habit_logs = {}
  /\ events = << >>

InitDatabase ==
  /\ calls < MaxHabitCalls
  /\ calls' = calls + 1
  /\ db' = TRUE
  /\ habits' = Opened(habits)
  /\ lastOp' = [NoOp EXCEPT !.op = "initDatabase", !.arg = Val(habits),
                            !.changes = IF db THEN 0 ELSE 1]
  /\ UNCHANGED <<rows, nextId, now, tzOffset, habit_logs, events, routine, oauth>>

CloseDatabase ==
  /\ calls < MaxHabitCalls
  /\ calls' = calls + 1
  /\ db' = FALSE
  /\ lastOp' = [NoOp EXCEPT !.op = "closeDatabase", !.changes = IF db THEN 1 ELSE 0]
  /\ UNCHANGED <<rows, nextId, now, tzOffset, habits, habit_logs, events, routine, oauth>>

LogHabit ==
  /\ calls < MaxHabitCalls
  /\ calls' = calls + 1
  /\ \E date \in HabitDates, habitId \in HabitIds, completed \in BOOLEAN,
        notes \in HabitNotes : logHabit(date, habitId, completed, notes)
  /\ UNCHANGED <<rows, nextId, now, tzOffset, events, routine, oauth>>

CallGetActiveHabits ==
  /\ calls < MaxHabitCalls
  /\ calls' = calls + 1
  /\ db' = TRUE
  /\ habits' = Opened(habits)
  /\ \E category \in HabitCategories :
       lastOp' = [NoOp EXCEPT !.op = "getActiveHabits", !.arg = category,
                              !.result = Val(getActiveHabits(category))]
  /\ UNCHANGED <<rows, nextId, now, tzOffset, habit_logs, events, routine, oauth>>

\* UPDATE habits SET active = 0 WHERE id = ..., made on the database file
SoftDisable ==
  /\ \E h \in habits :
       /\ h.id \in HabitIds
       /\ h.active = 1
       /\ habits' = (habits \ {h}) \cup {[h EXCEPT !.active = 0]}
  /\ UNCHANGED <<rows, nextId, now, tzOffset, lastOp, calls, db, habit_logs, events, routine, oauth>>

NextHabits ==
  InitDatabase \/ CloseDatabase \/ LogHabit \/ CallGetActiveHabits \/ SoftDisable

SpecHabits == InitHabits /\ [][NextHabits]_vars

-----------------------------------------------------------------------------
(* The habit statistics over stores of a few logs placed around the edge   *)
(* of the window, and over the store of the documented example.            *)

\* days from today (negative: back) on which SpecHabitStats places logs
LogOffsets == {1, 0, 0 - 6, 0 - 7, 0 - 8}

\* the row logHabit(date, habitId, completed) inserts
LogRow(id, date, habitId, completed) ==
  [id |-> id, date |-> date, habit_id |-> habitId,
   completed |-> IF completed THEN 1 ELSE 0, notes |-> NULL]

\* logs of the pairs P, completed as c[p] says, in the order of the days
LogStore(P, c) ==
  {LogRow(1 + Cardinality({q \in P : q[1] < p[1] \/ (q[1] = p[1] /\ q[2] < p[2])}),
          StatToday + p[1], p[2], c[p]) : p \in P}

\* habit 1 completed today and on the 4 days before, untouched on the 2
\* days before those
ExampleLogs == {LogRow(5 - i, StatToday - i, 1, TRUE) : i \in 0..4}

\* habit 1 completed today and on each of the 7 days before
DailyLogs == {LogRow(8 - i, StatToday - i, 1, TRUE) : i \in 0..7}

InitHabitStats ==
  /\ \/ \E P \in SUBSET (LogOffsets \X HabitIds) :
          /\ Cardinality(P) <= MaxLogRows
          /\ \E c \in [P -> BOOLEAN] : habit_logs = LogStore(P, c)
     \/ habit_logs = ExampleLogs
     \/ habit_logs = DailyLogs
  /\ \E off \in SUBSET {h \in SeedHabits({}, 1) : h.id \in HabitIds} :
       /\ Cardinality(off) <= 1
       /\ habits = {IF h \in off THEN [h EXCEPT !.active = 0] ELSE h
                      : h \in SeedHabits({}, 1)}
  /\ db = TRUE
  /\ events = << >>
  /\ rows = {}
  /\ nextId = 1
  /\ now = StatToday * TicksPerDay
  /\ tzOffset = 0
  /\ lastOp = NoOp
  /\ calls = 0
  /\ Idle

CallGetHabitStats ==
  /\ \E days \in StatWindows :
       lastOp' = [NoOp EXCEPT !.op = "getHabitStats", !.arg = Val(days),
                              !.result = Val(getHabitStats(days))]
  /\ UNCHANGED <<rows, nextId, now, tzOffset, calls, db, habits, habit_logs, events, routine, oauth>>

NextHabitStats == CallGetHabitStats

SpecHabitStats == InitHabitStats /\ [][NextHabitStats]_vars

-----------------------------------------------------------------------------
(* The calendar day over the lists of a few events that start and end on   *)
(* the hours around the working window.                                    *)

\* 07:00, 08:00, 09:00, 10:00, 11:00, 14:00, 14:30, 18:00, 19:00, 20:00
EventTimes == {480, 540, 600, 660, 840, 1080, 1140, 1200}

EventSpans ==
  {[start |-> p[1], end |-> p[2]] : p \in {q \in EventTimes \X EventTimes : q[1] < q[2]}}

InitCalendar ==
  /\ \E n \in 0..MaxEvents : events \in [1..n -> EventSpans]
  /\ rows = {}
  /\ nextId = 1
  /\ now = 0
  /\ tzOffset = 0
  /\ lastOp = NoOp
  /\ calls = 0
  /\ Idle
  /\ db = FALSE
  /\ habits = {}
  /\ habit_logs = {}

CallGetCalendarEvents ==
  /\ \E ok \in BOOLEAN :
       lastOp' = [NoOp EXCEPT !.op = "getCalendarEvents", !.arg = Val(events),
                              !.threw = ~ok,
                              !.result = Val(getCalendarEvents(events, ok))]
  /\ UNCHANGED <<rows, nextId, now, tzOffset, calls, db, habits, habit_logs, events, routine, oauth>>

NextCalendar == CallGetCalendarEvents

SpecCalendar == InitCalendar /\ [][NextCalendar]_vars

-----------------------------------------------------------------------------
(* Properties of the write paths *)

MorningOwnedFields ==
  {"whoopData", "calendarData", "energyRating", "mood", "sleepReflection",
   "yesterdayWin", "yesterdayChallenge", "oneThing", "movementIntention",
   "successMetric"}

MorningOwned(e) == [f \in MorningOwnedFields |-> e[f]]

\* the step just taken is a call of op on the store
Called(op) == calls' = calls + 1 /\ lastOp'.op = op

\* C1: after saveMorningEntry(e) returns, getDailyEntry(e.date) is a record
\* whose morning-owned fields equal those of e, whether the date had an
\* entry before or not.
C1_MorningReadBack ==
  (lastOp.op = "saveMorningEntry" /\ ~lastOp.threw) =>
     LET got == getDailyEntry(lastOp.date)
     IN  IsVal(got) /\ MorningOwned(got[2]) = MorningOwned(lastOp.arg[2])

\* a morning write with both snapshots, over an entry made at an earlier tick
\* that already had its evening sub-record
C1_Witness ==
  /\ lastOp.op = "saveMorningEntry" /\ ~lastOp.threw
  /\ IsVal(lastOp.arg[2].whoopData) /\ IsVal(lastOp.arg[2].calendarData)
  /\ \E r \in rows : /\ r.date = lastOp.date
                     /\ r.created_at < r.updated_at
                     /\ IsVal(rowToDailyEntry(r).evening)

\* C2 (as claimed): a morning upsert for a date that has an evening
\* sub-record leaves every field of that sub-record, its timestamp
\* included, as it was.
C2_EveningUntouched ==
  [][\A d \in Dates :
       (Called("saveMorningEntry") /\ lastOp'.date = d
          /\ IsVal(DailyEntryIn(rows, d)) /\ IsVal(DailyEntryIn(rows, d)[2].evening))
       => /\ IsVal(DailyEntryIn(rows', d))
          /\ DailyEntryIn(rows', d)[2].evening = DailyEntryIn(rows, d)[2].evening]_vars

\* C3 (as claimed): saveEveningEntry for a date without an entry throws.
C3_NotFoundRaised ==
  (lastOp.op = "saveEveningEntry" /\ lastOp.changes = 0) => lastOp.threw

\* C4: saveEveningEntry for a date without an entry changes no row and
\* creates none: the date still has no entry afterwards.
C4_EveningNeverCreates ==
  [][\A d \in Dates :
       (Called("saveEveningEntry") /\ lastOp'.date = d /\ ~IsVal(DailyEntryIn(rows, d)))
       => (rows' = rows /\ ~IsVal(DailyEntryIn(rows', d)))]_vars

\* an evening write that matched no row, on a store that holds an entry
C4_Witness ==
  /\ lastOp.op = "saveEveningEntry" /\ lastOp.changes = 0
  /\ ~IsVal(getDailyEntry(lastOp.date))
  /\ rows # {}

\* C5: the store holds at most one entry per date.
C5_OneEntryPerDate ==
  \A r \in rows : \A q \in rows : r.date = q.date => r = q

\* a date written a second time at a later tick, next to another date
C5_Witness ==
  /\ lastOp.op = "saveMorningEntry" /\ ~lastOp.threw
  /\ \E r \in rows : r.date = lastOp.date /\ r.created_at < r.updated_at
  /\ Cardinality(rows) >= 2

\* C6: the timestamp of an evening sub-record is never before the
\* timestamp of its entry.
C6_EveningNotBeforeEntry ==
  \A d \in Dates :
    LET got == getDailyEntry(d)
    IN  (IsVal(got) /\ IsVal(got[2].evening))
          => got[2].evening[2].timestamp >= got[2].timestamp

\* an evening sub-record on an entry whose morning was rewritten after the
\* entry was made
C6_Witness ==
  /\ lastOp.op = "saveMorningEntry" /\ ~lastOp.threw
  /\ LET got == getDailyEntry(lastOp.date)
     IN  /\ IsVal(got) /\ IsVal(got[2].evening)
         /\ got[2].evening[2].timestamp > got[2].timestamp

\* C7: saveEveningEntry leaves the morning-owned fields and the timestamp
\* of the entry it extends, and the whole entry of every other date, as
\* they were.
C7_EveningExtends ==
  [][\A d \in Dates :
       (Called("saveEveningEntry") /\ IsVal(DailyEntryIn(rows, d)))
       => LET old == DailyEntryIn(rows, d)[2]
              new == DailyEntryIn(rows', d)
          IN  /\ IsVal(new)
              /\ MorningOwned(new[2]) = MorningOwned(old)
              /\ new[2].timestamp = old.timestamp
              /\ (d # lastOp'.date => new[2] = old)]_vars

\* an evening write on an entry made at an earlier tick, next to the entry
\* of another date
C7_Witness ==
  /\ lastOp.op = "saveEveningEntry" /\ lastOp.changes = 1
  /\ LET got == getDailyEntry(lastOp.date)
     IN  /\ IsVal(got) /\ IsVal(got[2].evening)
         /\ got[2].evening[2].timestamp > got[2].timestamp
  /\ \E r \in rows : r.date # lastOp.date

-----------------------------------------------------------------------------
(* Properties of the reads *)

\* C8 (as claimed): getRecentEntries(n) is the entries dated within the n
\* days back from today and not after today, most recent first.
C8_RecentWindow ==
  \A n \in 1..MaxDays :
    LET window == OrderByDateDesc({r \in rows : r.date >= UtcToday - n /\ r.date <= UtcToday})
    IN  getRecentEntries(n) = [i \in 1..Len(window) |-> rowToDailyEntry(window[i])]

\* the number of consecutive dates ending at d that have an entry
RECURSIVE RunEndingAt(_)
RunEndingAt(d) ==
  IF \E r \in rows : r.date = d THEN 1 + RunEndingAt(d - 1) ELSE 0

\* C9 (as claimed): the streak is the length of the run of dates with an
\* entry that ends today, or yesterday when today has no entry.
C9_StreakIsRun ==
  lastOp.op = "getCurrentStreak" =>
    lastOp.result[2].streak =
      IF \E r \in rows : r.date = LocalToday THEN RunEndingAt(LocalToday)
                                             ELSE RunEndingAt(LocalToday - 1)

\* C10: the walk ends within 60 iterations and the streak it returns is at
\* most 60.
C10_WalkBounded ==
  lastOp.op = "getCurrentStreak" =>
    /\ lastOp.result[2].steps <= STREAK_ITERATIONS
    /\ lastOp.result[2].streak <= STREAK_ITERATIONS

\* the walk stopped by the cap: more than 60 dates in a row, today included
C10_Witness ==
  /\ lastOp.op = "getCurrentStreak"
  /\ lastOp.result[2].streak = STREAK_ITERATIONS
  /\ RunEndingAt(LocalToday) > STREAK_ITERATIONS


-----------------------------------------------------------------------------
(* Properties of the statistics *)

IsZero(x) == x[1] = "num" /\ x[2] = 0

\* equality of two finite numbers
NumEq(a, b) == a[1] = "num" /\ b[1] = "num" /\ a[2] * b[3] = b[2] * a[3]

\* the mean of column c over the entries of S that carry one, 0 when none does
MeanOver(S, c) ==
  LET valued == {r \in S : r[c] # NULL}
  IN  IF valued = {} THEN Num(0, 1) ELSE Num(SumCol(valued, c), Cardinality(valued))

AverageColumns ==
  [avgRecovery |-> "recovery_score", avgHrv |-> "hrv",
   avgSleep |-> "sleep_quality_minutes", avgEnergy |-> "energy_rating"]

TrendColumns ==
  [recoveryTrend |-> "recovery_score", hrvTrend |-> "hrv",
   sleepTrend |-> "sleep_quality_minutes"]

Trends(stats) == [f \in DOMAIN TrendColumns |-> stats[f]]

\* C11: getHistoricalStats(7) on a store with no entries returns 0 for the
\* four averages, 0 days tracked and the trend 'stable' for recovery, HRV
\* and sleep, and raises nothing.
C11_EmptyStoreZeros ==
  (lastOp.op = "getHistoricalStats" /\ lastOp.arg = Val(7) /\ rows = {}) =>
     /\ ~lastOp.threw
     /\ \A f \in DOMAIN AverageColumns : IsZero(lastOp.result[2][f])
     /\ lastOp.result[2].daysTracked = 0
     /\ \A f \in DOMAIN TrendColumns : lastOp.result[2][f] = "stable"

\* getHistoricalStats(7) has returned on the empty store
C11_Witness ==
  lastOp.op = "getHistoricalStats" /\ lastOp.arg = Val(7) /\ rows = {}

\* C12: daysTracked is the number of entries of the window (the dates from
\* windowDays days before today on) that have a recovery score, and each of
\* the four averages is the mean of its column over those entries only: an
\* entry without a recovery score changes none of them.
C12_NullRecoveryIgnored ==
  lastOp.op = "getHistoricalStats" =>
    LET counted == {r \in rows : /\ r.date >= UtcToday - lastOp.arg[2]
                                 /\ r.recovery_score # NULL}
    IN  /\ lastOp.result[2].daysTracked = Cardinality(counted)
        /\ \A f \in DOMAIN AverageColumns :
             NumEq(lastOp.result[2][f], MeanOver(counted, AverageColumns[f]))

\* a call on a store whose window holds an entry with an energy rating and a
\* sleep record but no recovery score, next to an entry with a recovery score
C12_Witness ==
  /\ lastOp.op = "getHistoricalStats"
  /\ lastOp.result[2].daysTracked >= 1
  /\ \E r \in rows : /\ r.date >= UtcToday - lastOp.arg[2]
                     /\ r.recovery_score = NULL
                     /\ r.energy_rating # NULL
                     /\ r.sleep_quality_minutes # NULL

C14_TrendBuckets ==
  lastOp.op = "getHistoricalStats" =>
    LET recent == {r \in rows : r.date >= UtcToday - 3 /\ r.date <= UtcToday - 1}
        older == {r \in rows : r.date >= UtcToday - 7 /\ r.date <= UtcToday - 4}
    IN  /\ \A f \in DOMAIN TrendColumns :
             lastOp.result[2][f] = calculateTrend(Avg(recent, TrendColumns[f]),
                                                  Avg(older, TrendColumns[f]))
        /\ rows = ExampleStore => lastOp.result[2].recoveryTrend = "up"

\* C15: getHistoricalStats returns the same three trends whatever window is
\* asked, and they are the trends of the entries dated from 7 days before
\* today on.
C15_TrendWindowFixed ==
  lastOp.op = "getHistoricalStats" =>
    LET week == {r \in rows : r.date >= UtcToday - 7}
    IN  \A d1 \in StatWindows :
          /\ \A d2 \in StatWindows :
               Trends(getHistoricalStats(d1)) = Trends(getHistoricalStats(d2))
          /\ \A f \in DOMAIN TrendColumns :
               getHistoricalStats(d1)[f] =
                 calculateTrend(Avg(RecentBucket(week), TrendColumns[f]),
                                Avg(OlderBucket(week), TrendColumns[f]))

\* a call with the window of 14 days on a store with a scored entry more
\* than 7 days back, where the recovery trend of the last 7 days is not
\* 'stable'
C15_Witness ==
  /\ lastOp.op = "getHistoricalStats" /\ lastOp.arg = Val(14)
  /\ \E r \in rows : /\ r.date < UtcToday - 7 /\ r.date >= UtcToday - 14
                     /\ r.recovery_score # NULL
  /\ lastOp.result[2].recoveryTrend # "stable"


-----------------------------------------------------------------------------
(* Properties of the habit store *)

\* C16 (as claimed): getHabitStats(windowDays) lists each active habit
\* once, with completionRate = (the number of the windowDays dates ending
\* today at which the habit is logged completed) / windowDays * 100: a date
\* without a log, or logged not completed, counts as a miss.
C16_CompletionRate ==
  lastOp.op = "getHabitStats" =>
    LET days == lastOp.arg[2]
        got == lastOp.result[2]
        active == {h \in habits : h.active = 1}
        done(h) == {d \in (UtcToday - days + 1)..UtcToday :
                      \E l \in habit_logs :
                        l.habit_id = h.id /\ l.date = d /\ l.completed = 1}
    IN  /\ Len(got) = Cardinality(active)
        /\ \A h \in active : \E i \in 1..Len(got) :
             /\ got[i].habitName = h.name
             /\ NumEq(got[i].completionRate, Num(100 * Cardinality(done(h)), days))

\* the note a call leaves in the row: none when it gave none or an empty one
StoredNote(notes) == IF notes = UNDEFINED \/ notes = Val("") THEN NULL ELSE notes

SamePair(r, q) == r.date = q.date /\ r.habit_id = q.habit_id

\* C17: after a logHabit call the table has exactly one row of the pair
\* (date, habitId) of the call, holding the completed value and the note of
\* that call; the rows of the other pairs are as they were, and no pair
\* has two rows.
C17_LogHabitUpsert ==
  [][Called("logHabit") =>
       LET arg == lastOp'.arg[2]
           mine == {r \in habit_logs' : r.date = lastOp'.date /\ r.habit_id = arg.habitId}
       IN  /\ Cardinality(mine) = 1
           /\ \A r \in mine : /\ r.completed = (IF arg.completed THEN 1 ELSE 0)
                              /\ r.notes = StoredNote(arg.notes)
           /\ \A r \in habit_logs' : \A q \in habit_logs' : SamePair(r, q) => r = q
           /\ habit_logs' \ mine = {r \in habit_logs : ~(\E q \in mine : SamePair(r, q))}]_vars

\* the last call wrote a pair again, with a note, whose row is older than
\* the row of another pair
C17_Witness ==
  /\ lastOp.op = "logHabit"
  /\ lastOp.arg[2].notes = Val("done")
  /\ \E r \in habit_logs : \E q \in habit_logs :
       /\ r.date = lastOp.date /\ r.habit_id = lastOp.arg[2].habitId
       /\ r.id < q.id

\* C18: getActiveHabits() returns exactly the habits with active = 1, and
\* getActiveHabits(category) exactly those of them whose category is the
\* given one or 'anytime'; the result is in (category, name) order and holds
\* no inactive habit.
C18_ActiveHabitsListed ==
  [][Called("getActiveHabits") =>
       LET got == lastOp'.result[2]
           category == lastOp'.arg
           wanted == {h \in habits' :
                        /\ h.active = 1
                        /\ \/ category = UNDEFINED
                           \/ h.category = category[2]
                           \/ h.category = "anytime"}
       IN  /\ Len(got) = Cardinality(wanted)
           /\ \A h \in wanted : \E i \in 1..Len(got) :
                /\ got[i].id = h.id /\ got[i].name = h.name
                /\ got[i].category = h.category /\ got[i].active = TRUE
           /\ \A i \in 1..Len(got) : \A j \in 1..Len(got) :
                i < j => \/ Collation(got[i].category) < Collation(got[j].category)
                         \/ /\ got[i].category = got[j].category
                            /\ Collation(got[i].name) < Collation(got[j].name)]_vars

\* getActiveHabits('morning') listed a morning and an anytime habit while a
\* morning or anytime habit was inactive
C18_Witness ==
  /\ lastOp.op = "getActiveHabits" /\ lastOp.arg = Val("morning")
  /\ \E i \in 1..Len(lastOp.result[2]) : lastOp.result[2][i].category = "anytime"
  /\ \E i \in 1..Len(lastOp.result[2]) : lastOp.result[2][i].category = "morning"
  /\ \E h \in habits : /\ h.active = 0
                       /\ \A i \in 1..Len(lastOp.result[2]) : lastOp.result[2][i].id # h.id

\* C19: after every call on the store the habit names are unique, each
\* default habit has exactly one row once the database was opened, and every
\* habit row is as it was before the call: none is removed and none that
\* was disabled is active again.
C19_HabitsSeededOnce ==
  [][calls' = calls + 1 =>
       /\ \A h \in habits' : \A g \in habits' : h.name = g.name => h = g
       /\ db' => \A i \in 1..Len(DefaultHabits) :
                   Cardinality({h \in habits' : h.name = DefaultHabits[i].name}) = 1
       /\ \A h \in habits : h \in habits']_vars

\* initDatabase has opened the database again on a table with a disabled
\* habit, after a habit was logged
C19_Witness ==
  /\ lastOp.op = "initDatabase" /\ lastOp.changes = 1
  /\ \E h \in lastOp.arg[2] : h.active = 0
  /\ \E h \in habits : h.active = 0
  /\ habit_logs # {}


-----------------------------------------------------------------------------
(* Properties of the calendar day *)

\* the length of the longest interval of the working window that no event
\* of evts covers, 0 when the window is covered
LongestUncovered(evts) ==
  LET marks == {WorkStart, WorkEnd} \cup
               {m \in {evts[i].start : i \in 1..Len(evts)} \cup
                      {evts[i].end : i \in 1..Len(evts)} : m > WorkStart /\ m < WorkEnd}
      free == {p \in marks \X marks :
                 /\ p[1] < p[2]
                 /\ \A i \in 1..Len(evts) : evts[i].end <= p[1] \/ evts[i].start >= p[2]}
  IN  IF free = {} THEN 0
      ELSE LET best == CHOOSE p \in free : \A q \in free : q[2] - q[1] <= p[2] - p[1]
           IN  best[2] - best[1]

\* C20 (as claimed): for every list of events, in any order,
\* calculateLongestFreeBlock is the length in minutes of the longest
\* interval of the 09:00-18:00 window that no event covers, and so is the
\* longestFreeBlock of the day fetched; for the events 10:00-11:00 and
\* 14:00-14:30 it is 210.
C20_LongestFreeBlock ==
  lastOp.op = "getCalendarEvents" =>
    /\ calculateLongestFreeBlock(events) = LongestUncovered(events)
    /\ ~lastOp.threw =>
          lastOp.result[2].summary.longestFreeBlock = LongestUncovered(events)
    /\ calculateLongestFreeBlock(<<[start |-> 600, end |-> 660],
                                   [start |-> 840, end |-> 870]>>) = 210

\* C21 (as claimed): every CalendarDay that getCalendarEvents returns with
\* an empty events list has summary.longestFreeBlock = 540, the whole
\* working window.
C21_EmptyDayWholeWindow ==
  (lastOp.op = "getCalendarEvents" /\ lastOp.result[2].events = << >>) =>
     lastOp.result[2].summary.longestFreeBlock = 540

\* seq with x put in after its first k elements
InsertAt(seq, k, x) == SubSeq(seq, 1, k) \o <<x>> \o SubSeq(seq, k + 1, Len(seq))

\* seq without its i-th element
RemoveAt(seq, i) == SubSeq(seq, 1, i - 1) \o SubSeq(seq, i + 1, Len(seq))

Min(a, b) == IF a <= b THEN a ELSE b

Inside(x, e) == e.start <= x.start /\ x.end <= e.end

Overlapping(a, b) == a.start < b.end /\ b.start < a.end

Union(a, b) == [start |-> Min(a.start, b.start), end |-> Max(a.end, b.end)]

\* C22: adding to the event list, at any place, an event whose interval lies
\* inside an existing event's interval, or replacing two overlapping events of
\* the list by their union, does not change calculateLongestFreeBlock.
C22_SweepAbsorbs ==
  lastOp.op = "getCalendarEvents" =>
    /\ \A x \in EventSpans :
         (\E i \in 1..Len(events) : Inside(x, events[i])) =>
            \A k \in 0..Len(events) :
               calculateLongestFreeBlock(InsertAt(events, k, x))
                 = calculateLongestFreeBlock(events)
    /\ \A i \in 1..Len(events) : \A j \in (i + 1)..Len(events) :
         Overlapping(events[i], events[j]) =>
            calculateLongestFreeBlock(
                InsertAt(RemoveAt(RemoveAt(events, j), i), i - 1,
                         Union(events[i], events[j])))
              = calculateLongestFreeBlock(events)

\* a day fetched with two events after 09:00, the later-listed one starting
\* first, that overlap without either holding the other, and a free block
\* left that is shorter than the window
C22_Witness ==
  /\ lastOp.op = "getCalendarEvents" /\ ~lastOp.threw
  /\ Len(events) = 2
  /\ Overlapping(events[1], events[2])
  /\ ~Inside(events[1], events[2]) /\ ~Inside(events[2], events[1])
  /\ events[2].start < events[1].start
  /\ events[2].start > WorkStart /\ events[1].end <= WorkEnd
  /\ lastOp.result[2].summary.longestFreeBlock \in 1..539

\* C27 (as claimed): for every list of events calculateLongestFreeBlock is
\* between 0 and 540, events after 18:00 or before 09:00 included.
C27_FreeBlockBounded ==
  lastOp.op = "getCalendarEvents" =>
    /\ calculateLongestFreeBlock(events) >= 0
    /\ calculateLongestFreeBlock(events) <= 540

-----------------------------------------------------------------------------
(* Properties of the entry read back *)

\* null and undefined both stand for "no value"
Absent(v) == v = NULL \/ v = UNDEFINED

SameValue(a, b) == (Absent(a) /\ Absent(b)) \/ a = b

\* the fields of a MorningEntry besides its date and timestamp
MorningEntryFields == MorningOwnedFields \cup {"patterns", "dynamicQuestions"}

\* the value a derived column is to hold: null when the snapshot or its
\* part is null, the part's field otherwise
SnapshotScalar(e, part, field) ==
  IF e.whoopData = NULL THEN NULL
  ELSE IF e.whoopData[2][part] = NULL THEN NULL
  ELSE Val(e.whoopData[2][part][2][field])

\* C23 (as claimed): after saveMorningEntry stores an entry, the entry read
\* back equals it field for field (date and timestamp included, an absent
\* optional field reading back as absent), a null snapshot reads back null
\* and a non-null one equal, and each derived scalar column is null exactly
\* when its part of the snapshot is null and equals the snapshot's value
\* otherwise.
C23_RoundTrip ==
  (lastOp.op = "saveMorningEntry" /\ ~lastOp.threw) =>
     LET e == lastOp.arg[2]
         got == getDailyEntry(e.date)
     IN  /\ IsVal(got)
         /\ got[2].date = e.date
         /\ got[2].timestamp = e.timestamp
         /\ \A f \in MorningEntryFields : SameValue(got[2][f], e[f])
         /\ got[2].whoopData = e.whoopData
         /\ got[2].calendarData = e.calendarData
         /\ \A r \in rows : r.date = e.date =>
              /\ r.recovery_score = SnapshotScalar(e, "recovery", "score")
              /\ r.hrv = SnapshotScalar(e, "recovery", "hrvRmssd")
              /\ r.resting_hr = SnapshotScalar(e, "recovery", "restingHeartRate")
              /\ r.sleep_quality_minutes = SnapshotScalar(e, "sleep", "qualityDuration")
              /\ r.sleep_efficiency = SnapshotScalar(e, "sleep", "efficiency")
              /\ r.strain_score = SnapshotScalar(e, "strain", "score")

\* C25 (as claimed): right after saveMorningEntry stores an entry dated
\* today, the local date, getCurrentStreak() is at least 1 and
\* getRecentEntries(n) holds that entry for every n >= 1, at every time and
\* in every zone offset.
C25_TodayEntryCounts ==
  (/\ lastOp.op = "saveMorningEntry" /\ ~lastOp.threw
   /\ lastOp.date = LocalToday
   /\ lastOp.arg[2].timestamp = now) =>
     /\ getCurrentStreak.streak >= 1
     /\ \A n \in 1..MaxDays :
          \E i \in 1..Len(getRecentEntries(n)) :
             getRecentEntries(n)[i].date = lastOp.date

-----------------------------------------------------------------------------
(* Properties of the habit statistics *)

\* C26 (as claimed): for every active habit, every window and every history
\* of logs, the completionRate that getHabitStats returns is between 0 and
\* 100 inclusive.
C26_RateWithinPercent ==
  lastOp.op = "getHabitStats" =>
    \A i \in 1..Len(lastOp.result[2]) :
       LET rate == lastOp.result[2][i].completionRate
       IN  rate[1] = "num" /\ ~Less(rate, 0) /\ ~Greater(rate, 100)

-----------------------------------------------------------------------------
(* The progress bar of the displays *)

\* Math.round(x) of a number x >= 0: the nearest integer, halves going up
MathRound(x) == (2 * x[2] + x[3]) \div (2 * x[3])

\* String.prototype.repeat(count): RangeError on a negative count
Repeat(ch, count) == IF count < 0 THEN <<"RangeError">> ELSE Val([i \in 1..count |-> ch])

\* createProgressBar(value, max, width) for a number value >= 0 and integers
\* max > 0 and width; the full block is written "#" and the light one "-"
createProgressBar(value, max, width) ==
  LET filled == MathRound(Times(Divide(value, Num(max, 1)), width))
      empty == width - filled
      left == Repeat("#", filled)
      right == Repeat("-", empty)
  IN  IF ~IsVal(left) THEN left
      ELSE IF ~IsVal(right) THEN right
      ELSE Val(left[2] \o right[2])

\* the values displayed: scores, milliseconds, minutes and rates, some of
\* them above the largest value of their bar
BarValues ==
  {Num(n, 1) : n \in {0, 1, 5, 10, 12, 21, 22, 50, 95, 100, 104, 105, 150, 160,
                      480, 500}} \cup {Num(800, 7), Num(15, 2)}

\* the max arguments of the callers: 100 by default
BarMaxes == {10, 21, 100, 150, 480}

\* the width arguments: 10 by default
BarWidths == {10, 20}

InitProgressBar ==
  /\ rows = {}
  /\ nextId = 1
  /\ now = 0
  /\ tzOffset = 0
  /\ lastOp = NoOp
  /\ calls = 0
  /\ Idle
  /\ db = FALSE
  /\ habits = {}
  /\ habit_logs = {}
  /\ events = << >>

CallCreateProgressBar ==
  /\ \E value \in BarValues, max \in BarMaxes, width \in BarWidths :
       LET bar == createProgressBar(value, max, width)
       IN  lastOp' = [NoOp EXCEPT !.op = "createProgressBar",
                                  !.arg = Val([value |-> value, max |-> max,
                                               width |-> width]),
                                  !.threw = ~IsVal(bar),
                                  !.result = bar]
  /\ UNCHANGED <<rows, nextId, now, tzOffset, calls, db, habits, habit_logs, events, routine, oauth>>

NextProgressBar == CallCreateProgressBar

SpecProgressBar == InitProgressBar /\ [][NextProgressBar]_vars

\* C28 (as claimed): createProgressBar(value, max, width) returns a bar of
\* exactly width characters for every value >= 0 and never throws, also when
\* value is above max.
C28_BarHasWidth ==
  lastOp.op = "createProgressBar" =>
    /\ ~lastOp.threw
    /\ IsVal(lastOp.result)
    /\ Len(lastOp.result[2]) = lastOp.arg[2].width

-----------------------------------------------------------------------------
(* The morning and evening routines, as far as they touch the store *)

\* table habit_logs L after logHabit(date, habitId, completed)
LogApplied(L, date, habitId, completed) ==
  LET conflicts == {r \in L : r.date = date /\ r.habit_id = habitId}
      c == IF completed THEN 1 ELSE 0
  IN  IF conflicts = {}
        THEN L \cup {[id |-> NextRowId(L), date |-> date, habit_id |-> habitId,
                      completed |-> c, notes |-> NULL]}
        ELSE {IF r \in conflicts THEN [r EXCEPT !.completed = c, !.notes = NULL]
              ELSE r : r \in L}

\* for (const habit of hs) logHabit(date, habit.id, habitsDone.includes(habit.id)),
\* from the i-th habit on
RECURSIVE LogEach(_, _, _, _, _)
LogEach(L, date, hs, i, habitsDone) ==
  IF i > Len(hs) THEN L
  ELSE LogEach(LogApplied(L, date, hs[i].id, hs[i].id \in habitsDone),
               date, hs, i + 1, habitsDone)

\* the answers to a checkbox prompt over the habits hs: none or all of them
HabitsDoneChoices(hs) == {{}, {hs[i].id : i \in 1..Len(hs)}}

\* hs.map(h => ({habitId: h.id, completed: habitsDone.includes(h.id)}))
CompletedHabits(hs, habitsDone) ==
  [i \in 1..Len(hs) |-> [habitId |-> hs[i].id, completed |-> hs[i].id \in habitsDone]]

\* yesterdayEntry?.evening?.eveningHabits: undefined when the entry, its
\* evening sub-record or the property is missing
EveningHabitsOf(entry) ==
  IF ~IsVal(entry) THEN UNDEFINED
  ELSE IF ~IsVal(entry[2].evening) THEN UNDEFINED
  ELSE IF "eveningHabits" \in DOMAIN entry[2].evening[2]
         THEN entry[2].evening[2].eveningHabits
  ELSE UNDEFINED

\* yesterdayEntry?.evening?.eveningHabits && ....eveningHabits.length > 0
yesterdayHabitsLogged(yesterdayEntry) ==
  /\ IsVal(EveningHabitsOf(yesterdayEntry))
  /\ Len(EveningHabitsOf(yesterdayEntry)[2]) > 0

\* the EveningEntry of the routine: e with its eveningHabits property
WithEveningHabits(e, completed) ==
  [f \in DOMAIN e \cup {"eveningHabits"} |->
     IF f = "eveningHabits"
       THEN IF Len(completed) > 0 THEN Val(completed) ELSE UNDEFINED
       ELSE e[f]]

\* the kinds of entry a routine's prompts can give: the rating is within 1-10
RoutineKinds == {1, 2}

runMorningRoutine ==
  LET today == LocalToday
      yesterday == LocalToday - 1
      existingEntry == getDailyEntry(today)
  IN  \E overwrite \in BOOLEAN, k \in RoutineKinds :
        IF IsVal(existingEntry) /\ ~overwrite
          THEN /\ routine' = [op |-> "morning", date |-> today, prompted |-> FALSE,
                              logged |-> FALSE]
               /\ UNCHANGED <<rows, nextId, lastOp, habit_logs>>
          ELSE LET eveningHabits == getActiveHabits(Val("evening"))
                   morningHabits == getActiveHabits(Val("morning"))
                   catchUp == /\ ~yesterdayHabitsLogged(getDailyEntry(yesterday))
                              /\ Len(eveningHabits) > 0
               IN  \E doneYesterday \in HabitsDoneChoices(eveningHabits),
                      doneToday \in HabitsDoneChoices(morningHabits) :
                     /\ habit_logs' =
                          LogEach(IF catchUp
                                    THEN LogEach(habit_logs, yesterday, eveningHabits, 1,
                                                 doneYesterday)
                                    ELSE habit_logs,
                                  today, morningHabits, 1, doneToday)
                     /\ saveMorningEntry(MorningSample(today, k))
                     /\ routine' = [op |-> "morning", date |-> today,
                                    prompted |-> catchUp,
                                    logged |-> Len(morningHabits) > 0]

runEveningRoutine ==
  LET today == LocalToday
      morningEntry == getDailyEntry(today)
  IN  \E overwrite \in BOOLEAN, k \in EveningKinds :
        IF ~IsVal(morningEntry) \/ (IsVal(morningEntry[2].evening) /\ ~overwrite)
          THEN /\ routine' = [op |-> "evening", date |-> today, prompted |-> FALSE,
                              logged |-> FALSE]
               /\ UNCHANGED <<rows, nextId, lastOp, habit_logs>>
          ELSE LET eveningHabits == getActiveHabits(Val("evening"))
               IN  \E habitsDone \in HabitsDoneChoices(eveningHabits) :
                     /\ habit_logs' = LogEach(habit_logs, today, eveningHabits, 1, habitsDone)
                     /\ saveEveningEntry(
                          WithEveningHabits(EveningSample(today, k),
                                            CompletedHabits(eveningHabits, habitsDone)))
                     /\ routine' = [op |-> "evening", date |-> today,
                                    prompted |-> Len(eveningHabits) > 0,
                                    logged |-> Len(eveningHabits) > 0]

RunMorningRoutine ==
  /\ calls < MaxCalls
  /\ calls' = calls + 1
  /\ runMorningRoutine
  /\ UNCHANGED <<now, tzOffset, db, habits, events, oauth>>

RunEveningRoutine ==
  /\ calls < MaxCalls
  /\ calls' = calls + 1
  /\ runEveningRoutine
  /\ UNCHANGED <<now, tzOffset, db, habits, events, oauth>>

NextRoutine == Tick \/ RunMorningRoutine \/ RunEveningRoutine

SpecRoutine == Init /\ [][NextRoutine]_vars

\* C24 (as claimed): after an evening routine that logged habits for day D,
\* the morning routine of day D+1 neither asks the "Yesterday's Habits"
\* catch-up nor changes the habit logs of day D.
C24_NoCatchUpAfterEvening ==
  [][(/\ calls' = calls + 1
      /\ routine'.op = "morning"
      /\ routine.op = "evening" /\ routine.logged
      /\ routine'.date = routine.date + 1)
       => /\ ~routine'.prompted
          /\ {l \in habit_logs' : l.date = routine.date}
               = {l \in habit_logs : l.date = routine.date}]_vars

-----------------------------------------------------------------------------
(* The reminder command *)

\* DEFAULT_CONFIG
morningStart == 6
morningEnd == 10
eveningStart == 20
eveningEnd == 23

HoursPerDay == 24

\* dayjs().hour(): the local hours that lie in the current tick
LocalHours ==
  {h \in 0..(HoursPerDay - 1) :
     h \div (HoursPerDay \div TicksPerDay) = (now + tzOffset) % TicksPerDay}

\* the morning window closing one hour late
reminderType_MorningEndInclusive(currentHour, todayEntry) ==
  LET morning == IF /\ currentHour >= morningStart /\ currentHour <= morningEnd
                    /\ ~IsVal(todayEntry)
                   THEN "morning" ELSE "none"
  IN  IF currentHour >= eveningStart /\ currentHour < eveningEnd
        THEN IF IsVal(todayEntry) /\ ~IsVal(todayEntry[2].evening) THEN "evening"
             ELSE IF ~IsVal(todayEntry) THEN "morning"
             ELSE morning
        ELSE morning

\* reminderType after the two window tests of runRemind
reminderType(currentHour, todayEntry) ==
  LET morning == IF /\ currentHour >= morningStart /\ currentHour < morningEnd
                    /\ ~IsVal(todayEntry)
                   THEN "morning" ELSE "none"
  IN  IF currentHour >= eveningStart /\ currentHour < eveningEnd
        THEN IF IsVal(todayEntry) /\ ~IsVal(todayEntry[2].evening) THEN "evening"
             ELSE IF ~IsVal(todayEntry) THEN "morning"
             ELSE morning
        ELSE morning

\* runRemind(silent): initDatabase(), the two reads, and notifier.notify
\* unless reminderType is 'none'
runRemind(silent) ==
  /\ db' = TRUE
  /\ habits' = Opened(habits)
  /\ \E currentHour \in LocalHours :
       LET today == LocalToday
           type == reminderType(currentHour, DailyEntryIn(rows, today))
       IN  lastOp' = [NoOp EXCEPT !.op = "runRemind", !.date = today,
                                  !.arg = Val([currentHour |-> currentHour,
                                               silent |-> silent]),
                                  !.result = Val([reminderType |-> type,
                                                  notified |-> type # "none"])]
  /\ UNCHANGED <<rows, nextId, habit_logs>>

\* the store the command finds: no entry, or one entry dated d, with only
\* its morning part (k = 1) or with its evening part too (k = 2)
RemindStore(d, k) ==
  LET morning == InsertedRow(1, d, MorningParams(MorningSampleAt(d, 2, d * TicksPerDay)),
                             d * TicksPerDay)
  IN  CASE k = 0 -> {}
        [] k = 1 -> {morning}
        [] OTHER -> {EveningUpdatedRow(morning, EveningParams(EveningSample(d, 1)),
                                       d * TicksPerDay)}

\* the command starts in a new process, on a new file or on a file that
\* earlier commands have written
InitRemind ==
  /\ now \in 0..MaxNow
  /\ \E d \in Dates, k \in 0..2 : rows = RemindStore(d, k)
  /\ nextId = Cardinality(rows) + 1
  /\ habits \in IF rows = {} THEN {{}, SeedHabits({}, 1)} ELSE {SeedHabits({}, 1)}
  /\ habit_logs = {}
  /\ db = FALSE
  /\ tzOffset \in TzOffsets
  /\ lastOp = NoOp
  /\ calls = 0
  /\ events = << >>
  /\ Idle

RunRemind ==
  /\ db = FALSE
  /\ calls < MaxCalls
  /\ calls' = calls + 1
  /\ \E silent \in BOOLEAN : runRemind(silent)
  /\ UNCHANGED <<now, tzOffset, events, routine, oauth>>

\* the process ends and its connection with it
ProcessExit ==
  /\ db = TRUE
  /\ db' = FALSE
  /\ UNCHANGED <<rows, nextId, now, tzOffset, lastOp, calls, habits, habit_logs, events,
                 routine, oauth>>

NextRemind == RunRemind \/ ProcessExit

SpecRemind == InitRemind /\ [][NextRemind]_vars

\* the hour and the entry of today are such that a reminder is due
ReminderDue(hour, entry) ==
  \/ hour \in 6..9 /\ ~IsVal(entry)
  \/ hour \in 20..22 /\ (~IsVal(entry) \/ ~IsVal(entry[2].evening))

\* C29 (as claimed): runRemind notifies if and only if (the hour is in
\* [6, 10) and today has no entry) or (the hour is in [20, 23) and today has
\* no evening sub-record), and it never modifies the store.
C29_RemindAsClaimed ==
  [][Called("runRemind") =>
       /\ lastOp'.result[2].notified
            <=> ReminderDue(lastOp'.arg[2].currentHour, DailyEntryIn(rows, lastOp'.date))
       /\ rows' = rows /\ habit_logs' = habit_logs /\ habits' = habits]_vars

\* C29 (amended): runRemind notifies if and only if a reminder is due as
\* above; it never changes a daily entry, a habit log or an existing habit,
\* and the only rows it adds are the default habits its initDatabase() call
\* seeds into a store that lacks them.
C29_RemindReadsOnly ==
  [][Called("runRemind") =>
       /\ lastOp'.result[2].notified
            <=> ReminderDue(lastOp'.arg[2].currentHour, DailyEntryIn(rows, lastOp'.date))
       /\ rows' = rows /\ habit_logs' = habit_logs
       /\ habits \subseteq habits'
       /\ \A h \in habits' \ habits :
            /\ \E i \in 1..Len(DefaultHabits) : DefaultHabits[i].name = h.name
            /\ ~\E g \in habits : g.name = h.name]_vars

\* an evening reminder sent at 20:00-22:59 for an entry without its evening
\* part, on a store that had its habits
C29_Witness ==
  /\ lastOp.op = "runRemind"
  /\ lastOp.arg[2].currentHour \in 20..22
  /\ lastOp.result[2].reminderType = "evening"
  /\ lastOp.result[2].notified
  /\ \E r \in rows : r.date = lastOp.date

-----------------------------------------------------------------------------
(* The OAuth flow.  The local server hands a request to the handler only   *)
(* while it listens; an exchange begun by a request goes on after the      *)
(* server is closed.                                                       *)

\* the values randomBytes(32).toString('hex') can give
FlowStates == {"s1", "s2"}

\* the requests the server can receive: searchParams.get gives null for a
\* parameter the URL does not have
Requests ==
  [path : {"/callback", "/favicon.ico"},
   state : {NULL} \cup {Val(x) : x \in FlowStates},
   code : {NULL, Val(""), Val("c1")},
   error : {NULL, Val("access_denied")}]

\* the handler without the test on the state parameter
StateMismatch_Unchecked(returnedState, state) == FALSE

\* returnedState !== state
StateMismatch(returnedState, state) == returnedState # Val(state)

\* resolve and reject act on a pending promise only
Settle(promise, outcome) == IF promise = "pending" THEN outcome ELSE promise

\* performOAuthFlow up to the return of the promise: the state is drawn, the
\* server listens, the timer is set
PerformOAuthFlow ==
  /\ oauth = NoFlow
  /\ \E state \in FlowStates :
       oauth' = [state |-> state, server |-> "listening", promise |-> "pending",
                 exchanges |-> << >>, timer |-> FALSE, tokensFrom |-> NULL]
  /\ UNCHANGED <<rows, nextId, now, tzOffset, lastOp, calls, db, habits, habit_logs,
                 events, routine>>

\* the request handler, up to its return or its await
Callback ==
  /\ oauth.server = "listening"
  /\ calls < MaxCalls
  /\ calls' = calls + 1
  /\ \E req \in Requests :
       /\ lastOp' = [NoOp EXCEPT !.op = "callback", !.arg = Val(req)]
       /\ oauth' =
            IF req.path # "/callback" THEN oauth
            ELSE IF StateMismatch(req.state, oauth.state) \/ TruthyString(req.error)
              THEN [oauth EXCEPT !.server = "closed",
                                 !.promise = Settle(oauth.promise, "rejected")]
            ELSE IF TruthyString(req.code)
              THEN [oauth EXCEPT !.exchanges = Append(oauth.exchanges, req)]
            ELSE oauth
  /\ UNCHANGED <<rows, nextId, now, tzOffset, db, habits, habit_logs, events, routine>>

\* the handler after its await: exchangeCodeForTokens returned tokens (ok)
\* or threw
ExchangeSettles ==
  /\ \E i \in 1..Len(oauth.exchanges), ok \in BOOLEAN :
       oauth' = [oauth EXCEPT
                   !.exchanges = SubSeq(oauth.exchanges, 1, i - 1)
                                   \o SubSeq(oauth.exchanges, i + 1, Len(oauth.exchanges)),
                   !.server = "closed",
                   !.promise = Settle(oauth.promise, IF ok THEN "resolved" ELSE "rejected"),
                   !.tokensFrom = IF ok /\ oauth.promise = "pending"
                                    THEN Val(oauth.exchanges[i]) ELSE oauth.tokensFrom]
  /\ UNCHANGED <<rows, nextId, now, tzOffset, lastOp, calls, db, habits, habit_logs,
                 events, routine>>

\* the setTimeout callback, five minutes after the start
Timeout ==
  /\ oauth.server # "none"
  /\ ~oauth.timer
  /\ oauth' = [oauth EXCEPT !.timer = TRUE, !.server = "closed",
                            !.promise = Settle(oauth.promise, "rejected")]
  /\ UNCHANGED <<rows, nextId, now, tzOffset, lastOp, calls, db, habits, habit_logs,
                 events, routine>>

NextOAuth == PerformOAuthFlow \/ Callback \/ ExchangeSettles \/ Timeout

SpecOAuth == Init /\ [][NextOAuth]_vars

\* C30: a callback whose state parameter differs from the state of the flow
\* starts no token exchange and delivers no tokens: the flow is rejected and
\* the server closed; and the flow resolves only with the tokens of an
\* exchange begun by a callback that carried the matching state and a code.
C30_StateGuardsExchange ==
  [][/\ (/\ Called("callback")
         /\ lastOp'.arg[2].path = "/callback"
         /\ lastOp'.arg[2].state # Val(oauth.state))
          => /\ oauth'.exchanges = oauth.exchanges
             /\ oauth'.tokensFrom = oauth.tokensFrom
             /\ oauth'.promise = "rejected"
             /\ oauth'.server = "closed"
     /\ oauth'.promise = "resolved"
          => /\ IsVal(oauth'.tokensFrom)
             /\ oauth'.tokensFrom[2].state = Val(oauth'.state)
             /\ TruthyString(oauth'.tokensFrom[2].code)
     /\ oauth.promise = "rejected" => oauth'.promise = "rejected"]_vars

\* a callback with another state and a code has just been answered while the
\* exchange of an earlier, matching callback was still under way
C30_Witness ==
  /\ lastOp.op = "callback"
  /\ lastOp.arg[2].path = "/callback"
  /\ lastOp.arg[2].state # Val(oauth.state) /\ IsVal(lastOp.arg[2].state)
  /\ TruthyString(lastOp.arg[2].code)
  /\ Len(oauth.exchanges) = 1
  /\ oauth.promise = "rejected" /\ oauth.server = "closed"

=============================================================================
